---------------------------- MODULE Spec2Model ----------------------------
(***************************************************************************)
(* A model of swarm/core.py: the Swarm turn loop (run, run_and_stream),    *)
(* the tool-call dispatcher (handle_tool_calls), the result normalizer     *)
(* (handle_function_result) and the request builder (get_chat_completion). *)
(*                                                                         *)
(* Python objects are modelled as follows.                                 *)
(*   - None is the record None; a string s is Str(s).  Every value that    *)
(*     may be either carries a "kind" field, so the two are comparable.    *)
(*   - An Agent is immutable and is named by its name ("A", "B"); the      *)
(*     table AgentDef gives its fields.  NoAgent is Python's None.         *)
(*   - Lists and dicts that can be aliased (the caller's messages and      *)
(*     context_variables, and the run's history and context_variables)     *)
(*     live in the heaps `lists' and `dicts'; a local name holds the id    *)
(*     of the object it is bound to.                                       *)
(*   - The client and the tool functions are the environment: what the     *)
(*     model replies, whether a request fails, and what a tool returns     *)
(*     are drawn from small sets.                                          *)
(***************************************************************************)
EXTENDS Integers, Sequences, FiniteSets, TLC

(***************************************************************************)
(* Bounds of the model.                                                    *)
(***************************************************************************)
\* the largest max_turns a run is started with
MaxTurns == 4
\* the largest number of tool calls the model requests during one run
MaxCalls == 2

(***************************************************************************)
(* Python values.                                                          *)
(***************************************************************************)
None == [kind |-> "none", s |-> ""]
Str(s) == [kind |-> "str", s |-> s]
NoAgent == "<None>"
Truthy(v) == v.kind = "str" /\ v.s # ""

\* dict.update(other): per key, the value of `other' wins
DictUpdate(d, other) ==
  [x \in (DOMAIN d) \cup (DOMAIN other) |->
     IF x \in DOMAIN other THEN other[x] ELSE d[x]]
EmptyDict == [x \in {} |-> ""]

\* defaultdict(str, context_variables)[key]
DefaultGet(d, key) == IF key \in DOMAIN d THEN d[key] ELSE ""

(***************************************************************************)
(* The modes a Swarm can be constructed with.  "gem" stands for the        *)
(* strings that are substrings of "gemini" without being it, "other" for   *)
(* the strings that are not, and "" for the missing mode.                  *)
(***************************************************************************)
Modes == {"", "openai", "ollama", "gemini", "gem", "other"}

\* self.mode in ("ollama", "openai"): membership in a tuple
InToolModes(m) == m \in {"ollama", "openai"}
\* self.mode in ("gemini"): ("gemini") is a string, so `in' is the substring test
InGemini(m) == m \in {"", "gem", "gemini"}

(***************************************************************************)
(* The agents and tool functions the runs are given.                       *)
(***************************************************************************)
CtxKeys == {"k", "j"}

\* instructions: a string, or a callable of the context variables
Instructions(a, ctx) ==
  CASE a = "A" -> "You are A."
    [] a = "B" -> "You are B; k=" \o DefaultGet(ctx, "k")
    [] a = "C" -> "You are C."

AgentDef(a) ==
  CASE a = "A" -> [name |-> "A", model |-> Str("model-a"),
                   functions |-> <<"set_k1", "to_B", "to_C", "look", "boom">>,
                   tool_choice |-> None, parallel_tool_calls |-> TRUE]
    [] a = "B" -> [name |-> "B", model |-> Str("model-b"),
                   functions |-> <<"look", "to_C">>,
                   tool_choice |-> Str("auto"), parallel_tool_calls |-> FALSE]
    [] a = "C" -> [name |-> "C", model |-> None,
                   functions |-> <<>>,
                   tool_choice |-> None, parallel_tool_calls |-> TRUE]

\* func.__code__.co_varnames contains "context_variables"
DeclaresCtx(f) == f \in {"look", "to_C"}

\* What a tool function does when called with the (parsed) arguments; ctx
\* is the mapping it is handed when it declares context_variables.
\*   "raise": the function raises;  "str": a plain value;
\*   "agent": an Agent;  "result": a Result object.
CallTool(f, ctx) ==
  CASE f = "set_k1" -> [kind |-> "result", value |-> "one", agent |-> NoAgent,
                        context_variables |-> ("k" :> "v1")]
    [] f = "to_B"   -> [kind |-> "agent", value |-> "", agent |-> "B",
                        context_variables |-> EmptyDict]
    [] f = "to_C"   -> [kind |-> "result", value |-> "over to C", agent |-> "C",
                        context_variables |-> ("k" :> "v2") @@ ("j" :> "w2")]
    [] f = "look"   -> [kind |-> "str", value |-> "k is " \o DefaultGet(ctx, "k"),
                        agent |-> NoAgent, context_variables |-> EmptyDict]
    [] OTHER        -> [kind |-> "raise", value |-> "", agent |-> NoAgent,
                        context_variables |-> EmptyDict]

(***************************************************************************)
(* Messages and tool calls.  A key a dict does not have is Absent.         *)
(***************************************************************************)
Absent == [kind |-> "absent", s |-> ""]
NoCalls == [kind |-> "none", calls |-> <<>>]
CallList(cs) == [kind |-> "list", calls |-> cs]

Msg(role, content, sender, tool_calls, tool_call_id, tool_name) ==
  [role |-> role, content |-> content, sender |-> sender,
   tool_calls |-> tool_calls, tool_call_id |-> tool_call_id,
   tool_name |-> tool_name]

Digit(i) ==
  CASE i = 0 -> "0" [] i = 1 -> "1" [] i = 2 -> "2" [] i = 3 -> "3"
    [] i = 4 -> "4" [] i = 5 -> "5" [] i = 6 -> "6" [] i = 7 -> "7"
    [] i = 8 -> "8" [] OTHER -> "9"

ToolCall(i, name, arguments) ==
  [id |-> "call_" \o Digit(i), name |-> name, arguments |-> arguments,
   type |-> "function"]

\* json.loads(tool_call.function.arguments): the argument strings of the model
JsonLoadsArgs(a) ==
  IF a = "{}" THEN [ok |-> TRUE, keys |-> {}] ELSE [ok |-> FALSE, keys |-> {}]

\* repr() of a context mapping, keys in insertion order (k before j)
PyReprDict(ctx) ==
  "{" \o (IF "k" \in DOMAIN ctx THEN "'k': '" \o ctx["k"] \o "'" ELSE "")
      \o (IF {"k", "j"} \subseteq DOMAIN ctx THEN ", " ELSE "")
      \o (IF "j" \in DOMAIN ctx THEN "'j': '" \o ctx["j"] \o "'" ELSE "")
      \o "}"

\* str(args) after the optional injection of context_variables
PyStrArgs(parsed, injected, ctx) ==
  IF injected
  THEN "{'context_variables': " \o PyReprDict(ctx) \o "}"
  ELSE "{}"

(***************************************************************************)
(* handle_function_result: the raw return value of a tool, as a Result.    *)
(***************************************************************************)
handle_function_result(raw) ==
  CASE raw.kind = "result" ->
         [value |-> raw.value, agent |-> raw.agent,
          context_variables |-> raw.context_variables]
    [] raw.kind = "agent" ->
         [value |-> "{\"assistant\": \"" \o AgentDef(raw.agent).name \o "\"}",
          agent |-> raw.agent, context_variables |-> EmptyDict]
    [] OTHER ->
         [value |-> raw.value, agent |-> NoAgent,
          context_variables |-> EmptyDict]

(***************************************************************************)
(* handle_tool_calls.  The partial response carries, besides the fields of *)
(* the Response object, what became of the call: `raised' names the        *)
(* exception that left the loop ("" when it returned), and `executed'      *)
(* lists the tool functions that were invoked, with the context mapping    *)
(* each was handed (Absent when it declares none).                         *)
(***************************************************************************)
FunctionMap(functions) == {functions[i] : i \in DOMAIN functions}

NewPartial ==
  [messages |-> <<>>, agent |-> NoAgent, context_variables |-> EmptyDict,
   raised |-> "", executed |-> <<>>]

\* lines 145-152 and 156-161: the message of a tool that is not registered
MissingToolMessages(m, tc) ==
  IF InToolModes(m)
  THEN << Msg("tool", Str("Error: Tool " \o tc.name \o " not found."),
              Absent, Absent, Str(tc.id), Str(tc.name)) >>
  ELSE IF InGemini(m)
  THEN << Msg("assistant", Str("Error: Tool " \o tc.name \o " not found."),
              Absent, Absent, Absent, Absent) >>
  ELSE << >>

\* lines 176-192: the message of a tool that returned
ToolResultMessages(m, tc, result, argstr) ==
  IF InToolModes(m)
  THEN << Msg("tool", Str(result.value), Absent, Absent,
              Str(tc.id), Str(tc.name)) >>
  ELSE IF InGemini(m)
  THEN << Msg("assistant",
              Str("Tool " \o tc.name \o " returned: " \o result.value
                  \o ". \nTool_call args: " \o argstr),
              Absent, Absent, Absent, Absent) >>
  ELSE << >>

\* the tool handed the context with the updates of the batch so far
ExecuteCallSeeingUpdates(pr, tc, functions, ctx, m) ==
  LET seen     == DictUpdate(ctx, pr.context_variables)
      parsed   == JsonLoadsArgs(tc.arguments)
      injected == DeclaresCtx(tc.name)
      raw      == CallTool(tc.name, seen)
      result   == handle_function_result(raw)
      call     == [name |-> tc.name,
                   context_variables |-> IF injected THEN seen ELSE EmptyDict,
                   injected |-> injected]
  IN  IF ~parsed.ok
      THEN [pr EXCEPT !.raised = "JSONDecodeError"]
      ELSE IF tc.name \notin FunctionMap(functions)
      THEN [pr EXCEPT !.raised = "KeyError"]
      ELSE IF raw.kind = "raise"
      THEN [pr EXCEPT !.raised = "ToolError",
                      !.executed = Append(@, call)]
      ELSE [messages |-> pr.messages \o
                         ToolResultMessages(m, tc, result,
                                            PyStrArgs(parsed, injected, seen)),
            agent |-> IF result.agent # NoAgent THEN result.agent ELSE pr.agent,
            context_variables |->
                DictUpdate(pr.context_variables, result.context_variables),
            raised |-> "",
            executed |-> Append(pr.executed, call)]

\* lines 164-196: a call that reaches json.loads
ExecuteCall(pr, tc, functions, ctx, m) ==
  LET parsed   == JsonLoadsArgs(tc.arguments)
      injected == DeclaresCtx(tc.name)
      raw      == CallTool(tc.name, ctx)
      result   == handle_function_result(raw)
      call     == [name |-> tc.name,
                   context_variables |-> IF injected THEN ctx ELSE EmptyDict,
                   injected |-> injected]
  IN  IF ~parsed.ok
      THEN [pr EXCEPT !.raised = "JSONDecodeError"]
      ELSE IF tc.name \notin FunctionMap(functions)
      THEN [pr EXCEPT !.raised = "KeyError"]
      ELSE IF raw.kind = "raise"
      THEN [pr EXCEPT !.raised = "ToolError",
                      !.executed = Append(@, call)]
      ELSE [messages |-> pr.messages \o
                         ToolResultMessages(m, tc, result,
                                            PyStrArgs(parsed, injected, ctx)),
            agent |-> IF result.agent # NoAgent THEN result.agent ELSE pr.agent,
            context_variables |->
                DictUpdate(pr.context_variables, result.context_variables),
            raised |-> "",
            executed |-> Append(pr.executed, call)]

\* lines 139-196: one iteration of the loop over tool_calls
HandleOneCall(pr, tc, functions, ctx, m) ==
  IF tc.name \notin FunctionMap(functions) /\ (InToolModes(m) \/ InGemini(m))
  THEN [pr EXCEPT !.messages = @ \o MissingToolMessages(m, tc)]
  ELSE ExecuteCall(pr, tc, functions, ctx, m)

\* the loop going on to the next call after a call that raised
RECURSIVE HandleFromUndeterred(_, _, _, _, _, _)
HandleFromUndeterred(pr, i, tool_calls, functions, ctx, m) ==
  IF i > Len(tool_calls)
  THEN pr
  ELSE HandleFromUndeterred(HandleOneCall(pr, tool_calls[i], functions, ctx, m),
                            i + 1, tool_calls, functions, ctx, m)

RECURSIVE HandleFrom(_, _, _, _, _, _)
HandleFrom(pr, i, tool_calls, functions, ctx, m) ==
  IF i > Len(tool_calls) \/ pr.raised # ""
  THEN pr
  ELSE HandleFrom(HandleOneCall(pr, tool_calls[i], functions, ctx, m),
                  i + 1, tool_calls, functions, ctx, m)

handle_tool_calls(tool_calls, functions, ctx, m) ==
  HandleFrom(NewPartial, 1, tool_calls, functions, ctx, m)

(***************************************************************************)
(* get_chat_completion.  A request is the create_params mapping handed to  *)
(* the client.  The environment of one call is env: env.outcome says       *)
(* whether the client answers at once ("ok"), fails once and then answers  *)
(* ("retry"), or fails every time ("fail"); env.reply is its answer.       *)
(***************************************************************************)
Bool(b) == [kind |-> "bool", s |-> IF b THEN "True" ELSE "False"]
ListOf(items) == [kind |-> "list", s |-> "", items |-> items]

\* the parameters a tool function declares
Params(f) == IF DeclaresCtx(f) THEN {"context_variables"} ELSE {}

\* lines 66-72: function_to_json(f) with context_variables hidden
ToolSchema(f) ==
  [name |-> f,
   properties |-> Params(f) \ {"context_variables"},
   required |-> Params(f) \ {"context_variables"}]

Tools(a) == [i \in DOMAIN AgentDef(a).functions |-> ToolSchema(AgentDef(a).functions[i])]

\* x or y
PyOr(x, y) == IF Truthy(x) THEN x ELSE y

\* lines 57-63: the messages of the request
RequestMessages(a, hist, ctx) ==
  << Msg("system", Str(Instructions(a, ctx)), Absent, Absent, Absent, Absent) >>
    \o hist

\* lines 77-84: create_params, with model_config laid over it
CreateParams(a, hist, ctx, model_override, stream, model_config) ==
  DictUpdate(
    [key \in {"model", "messages", "tools", "tool_choice", "stream"} |->
       CASE key = "model"       -> PyOr(model_override, AgentDef(a).model)
         [] key = "messages"    -> ListOf(RequestMessages(a, hist, ctx))
         [] key = "tools"       -> IF Tools(a) # <<>> THEN ListOf(Tools(a)) ELSE None
         [] key = "tool_choice" -> AgentDef(a).tool_choice
         [] OTHER               -> Bool(stream)],
    model_config)

\* lines 88-89: the first request of the tool-capable dialects
FirstParams(a, params) ==
  IF Tools(a) # <<>>
  THEN DictUpdate(params,
                  "parallel_tool_calls" :> Bool(AgentDef(a).parallel_tool_calls))
  ELSE params

\* lines 96-97: the request of the retry
RetryParams(params) ==
  DictUpdate(params, ("tools" :> None) @@ ("tool_choice" :> None))

NoCompletion == [content |-> None, calls |-> <<>>, order |-> <<>>, present |-> FALSE]

\* a failure of the Gemini request left to reach the caller as it is
ExchangePropagating(a, model_override, m, env) ==
  IF ~Truthy(AgentDef(a).model) /\ ~Truthy(model_override)
  THEN [raised |-> "ValueError", sent |-> 0, completion |-> NoCompletion]
  ELSE IF InToolModes(m)
  THEN CASE env.outcome = "ok" ->
              [raised |-> "", sent |-> 1, completion |-> env.reply]
         [] env.outcome = "retry" ->
              [raised |-> "", sent |-> 2, completion |-> env.reply]
         [] OTHER ->
              [raised |-> "BackendError", sent |-> 2,
               completion |-> NoCompletion]
  ELSE IF m = "gemini"
  THEN IF env.outcome = "ok"
       THEN [raised |-> "", sent |-> 1, completion |-> env.reply]
       ELSE [raised |-> "BackendError", sent |-> 1,
             completion |-> NoCompletion]
  ELSE [raised |-> "", sent |-> 0, completion |-> NoCompletion]
\* lines 74-75 and 86-107: the course of the call, whatever the request
\* holds: the exception it raises ("" when it returns), how many requests
\* it sends to the client, and the completion it returns
Exchange(a, model_override, m, env) ==
  IF ~Truthy(AgentDef(a).model) /\ ~Truthy(model_override)
  THEN [raised |-> "ValueError", sent |-> 0, completion |-> NoCompletion]
  ELSE IF InToolModes(m)
  THEN CASE env.outcome = "ok" ->
              [raised |-> "", sent |-> 1, completion |-> env.reply]
         [] env.outcome = "retry" ->
              [raised |-> "", sent |-> 2, completion |-> env.reply]
         [] OTHER ->
              [raised |-> "BackendError", sent |-> 2,
               completion |-> NoCompletion]
  ELSE IF m = "gemini"
  THEN IF env.outcome = "ok"
       THEN [raised |-> "", sent |-> 1, completion |-> env.reply]
       ELSE [raised |-> "ValueError", sent |-> 1, completion |-> NoCompletion]
  ELSE [raised |-> "", sent |-> 0, completion |-> NoCompletion]

\* the outcome of get_chat_completion: the exception it raised ("" when it
\* returned), the requests the client received, and the completion returned
get_chat_completion(a, hist, ctx, model_override, stream, model_config, m, env) ==
  LET params == CreateParams(a, hist, ctx, model_override, stream, model_config)
      first  == FirstParams(a, params)
      course == Exchange(a, model_override, m, env)
  IN  [raised |-> course.raised,
       requests |-> IF InToolModes(m)
                    THEN SubSeq(<<first, RetryParams(first)>>, 1, course.sent)
                    ELSE SubSeq(<<params>>, 1, course.sent),
       completion |-> course.completion]

(***************************************************************************)
(* The replies of the model (the client's answers).                        *)
(***************************************************************************)
\* the tool calls a reply may carry: a function name and an argument string
CallVocab ==
  {[name |-> n, arguments |-> "{}"] :
      n \in {"set_k1", "to_B", "to_C", "look", "boom", "foo"}}
  \cup {[name |-> "look", arguments |-> "{bad"]}

\* the batches of at most `most' calls, ids given by position
Batches(most) ==
  UNION {{[i \in 1..n |-> ToolCall(i, b[i].name, b[i].arguments)] :
             b \in [1..n -> CallVocab]} : n \in 0..most}

Ascending(n) == [i \in 1..n |-> i]
Descending(n) == [i \in 1..n |-> n + 1 - i]

\* the orders in which a stream may deliver the calls of batch b
Orders(b, streamed) ==
  IF streamed /\ Len(b) > 1
  THEN {Ascending(Len(b)), Descending(Len(b))}
  ELSE {Ascending(Len(b))}

\* The content of a reply without tool calls is one of three values; one
\* with tool calls has no content.  `order' is the order in which the
\* stream delivers the tool calls (positions of `calls').
PlainReplies ==
  {[content |-> c, calls |-> <<>>, order |-> <<>>, present |-> TRUE] :
      c \in {Str(" ok "), Str("it's"), None}}

Replies(streamed, most) ==
  PlainReplies \cup
  UNION {{[content |-> None, calls |-> b, order |-> o, present |-> TRUE] :
             o \in Orders(b, streamed)} : b \in Batches(most) \ {<<>>}}

\* The environments of one get_chat_completion call in mode m, when the
\* model may still request `most' tool calls.  A retry is sent without
\* tools, and is answered without tool calls.
Envs(m, streamed, most) ==
  IF InToolModes(m)
  THEN {[outcome |-> "ok", reply |-> r] : r \in Replies(streamed, most)}
       \cup {[outcome |-> "retry", reply |-> r] : r \in PlainReplies}
       \cup {[outcome |-> "fail", reply |-> NoCompletion]}
  ELSE IF m = "gemini"
  THEN {[outcome |-> "ok", reply |-> r] : r \in Replies(streamed, most)}
       \cup {[outcome |-> "fail", reply |-> NoCompletion]}
  ELSE {[outcome |-> "ok", reply |-> NoCompletion]}

\* the environments of a call, tabulated by mode, form and calls left
EnvsOf ==
  [m \in Modes, streamed \in BOOLEAN, most \in 0..MaxCalls |->
     Envs(m, streamed, most)]

(***************************************************************************)
(* The history entry of the assistant message (run, lines 336-350).        *)
(***************************************************************************)
\* the strings of the model that hold a quote character
HasQuote(t) == t = "it's"

\* .replace("None", "null") on a string of the model
ReplaceNone(t) == IF t = "None" THEN "null" ELSE t

\* str.strip() on a string of the model
StrStrip(t) == IF t = " ok " THEN "ok" ELSE t

\* str(json.loads(message.model_dump_json())).replace("'", '"')
\*    .replace("None", "null"): a string, given by what json.loads makes
\* of it: `valid' says whether it parses, `content' is its "content" member.
\* The repr of a string holding a quote no longer parses after the replace.
ReprJson(dump) ==
  [kind |-> "repr", s |-> "",
   valid |-> /\ ~(dump.content.kind = "str" /\ HasQuote(dump.content.s))
             /\ \A i \in DOMAIN dump.tool_calls.calls :
                   ~HasQuote(dump.tool_calls.calls[i].arguments),
   content |-> IF dump.content.kind = "str"
               THEN Str(ReplaceNone(dump.content.s)) ELSE None]

\* json.loads(text): ok, and the "content" member of the result
JsonLoadsContent(c) ==
  IF c.kind = "repr" /\ c.valid
  THEN [ok |-> TRUE, content |-> c.content]
  ELSE [ok |-> FALSE, content |-> None]

\* message, with message.sender set, as json.loads(message.model_dump_json())
MessageDump(reply, sender) ==
  Msg("assistant", reply.content, Str(sender),
      IF reply.calls = <<>> THEN NoCalls ELSE CallList(reply.calls),
      Absent, Absent)

\* lines 339-350: what run appends to history for the assistant message
AssistantEntries(m, reply, sender) ==
  IF InToolModes(m)
  THEN << MessageDump(reply, sender) >>
  ELSE IF InGemini(m)
  THEN << Msg("assistant", ReprJson(MessageDump(reply, sender)),
              Absent, Absent, Absent, Absent) >>
  ELSE << >>

(***************************************************************************)
(* The stream of one completion, and the accumulator (run_and_stream,      *)
(* lines 218-257; merge_chunk is the merge rule of the specification).     *)
(***************************************************************************)
\* the pieces in which the stream delivers a content string
Fragments(t) == IF t = " ok " THEN <<" o", "k ">> ELSE <<t>>

Delta(role, content, tool_calls) ==
  [role |-> role, content |-> content, tool_calls |-> tool_calls]

\* the chunks of a reply: the role, the content piece by piece, then one
\* chunk per tool call, in the order reply.order
Chunks(reply) ==
  << Delta(Str("assistant"),
           IF reply.content.kind = "str" THEN Str("") ELSE None, <<>>) >>
  \o (IF reply.content.kind = "str"
      THEN [i \in DOMAIN Fragments(reply.content.s) |->
              Delta(None, Str(Fragments(reply.content.s)[i]), <<>>)]
      ELSE <<>>)
  \o [p \in DOMAIN reply.order |->
        Delta(None, None,
              << [index |-> reply.order[p] - 1,
                  id |-> Str(reply.calls[reply.order[p]].id),
                  name |-> Str(reply.calls[reply.order[p]].name),
                  arguments |-> Str(reply.calls[reply.order[p]].arguments),
                  type |-> Str(reply.calls[reply.order[p]].type)] >>)]

\* lines 218-230: the message a turn starts from
NewMessage(sender) ==
  [content |-> "", sender |-> sender, role |-> "assistant", tool_calls |-> <<>>]

\* target[key] += value when value is a string
Concat(t, v) == IF v.kind = "str" THEN t \o v.s ELSE t

\* the position of the entry of `index' in the index-keyed map (0: none)
EntryOf(entries, index) ==
  IF \E i \in DOMAIN entries : entries[i].index = index
  THEN CHOOSE i \in DOMAIN entries : entries[i].index = index
  ELSE 0

\* one tool-call fragment merged into the index-keyed map; an index seen
\* for the first time gets an empty entry, at the end of the map
MergeFragment(entries, f) ==
  LET es == IF EntryOf(entries, f.index) = 0
            THEN Append(entries, [index |-> f.index, id |-> "", name |-> "",
                                  arguments |-> "", type |-> ""])
            ELSE entries
      i  == EntryOf(es, f.index)
  IN  [es EXCEPT ![i] = [index |-> f.index,
                         id |-> Concat(@.id, f.id),
                         name |-> Concat(@.name, f.name),
                         arguments |-> Concat(@.arguments, f.arguments),
                         type |-> Concat(@.type, f.type)]]

RECURSIVE MergeFragments(_, _)
MergeFragments(entries, fs) ==
  IF fs = <<>> THEN entries
  ELSE MergeFragments(MergeFragment(entries, Head(fs)), Tail(fs))

merge_chunk(message, delta) ==
  [message EXCEPT !.content = Concat(@, delta.content),
                  !.tool_calls = MergeFragments(@, delta.tool_calls)]

\* lines 254-257: list(message["tool_calls"].values()), the values of the
\* map in the order its keys were inserted
ToolCallValues(entries) ==
  [i \in DOMAIN entries |->
     [id |-> entries[i].id, name |-> entries[i].name,
      arguments |-> entries[i].arguments, type |-> entries[i].type]]

\* lines 254-259: the history entry of the accumulated message
StreamedMessage(message) ==
  Msg("assistant", Str(message.content), Str(message.sender),
      IF ToolCallValues(message.tool_calls) = <<>>
      THEN NoCalls ELSE CallList(ToolCallValues(message.tool_calls)),
      Absent, Absent)

(***************************************************************************)
(* The state.                                                              *)
(***************************************************************************)
VARIABLES
  pc,                \* "new", "ready", "loop", "returned", "raised", and for
                     \* the generator: "created" (not started), "start",
                     \* "delta", "end" (suspended at that yield)
  op,                \* the operation called: "", "__init__", "run", "handle_tool_calls"
  mode,              \* the mode argument of the constructor
  self,              \* the Swarm instance: its mode and client
  agent, stream, max_turns, execute_tools, model_override, model_config,
                     \* the arguments of run
  messages0, ctx0,   \* what the caller has put in its messages and
                     \* context_variables objects
  lists,             \* the list objects: "arg" the caller's messages, "copy"
  dicts,             \* the dict objects: "arg" the caller's mapping, "copy"
  history,           \* the list the local name history is bound to
  context_variables, \* the dict the local name context_variables is bound to
  init_len, active_agent,
  broke,             \* the while loop was left by break
  message,           \* run_and_stream: the message being accumulated
  chunks,            \* run_and_stream: the completion being iterated
  tool_calls,        \* the batch last handed to handle_tool_calls
  partial_response,  \* what handle_tool_calls last returned
  yielded,           \* run_and_stream: what the generator has yielded
  response,          \* the Response returned (or yielded last)
  error,             \* the exception that ended the operation
  requests,          \* per get_chat_completion call, the requests the client got
  executed,          \* the tool functions invoked, in order
  asked,             \* the number of tool calls the model has requested
  completion         \* what get_chat_completion last returned

ctorvars == <<mode, self>>
argvars == <<agent, stream, max_turns, execute_tools, model_override,
             model_config, messages0, ctx0, init_len, history,
             context_variables>>
loopvars == <<lists, dicts, active_agent, broke, tool_calls, partial_response,
              executed>>
streamvars == <<message, chunks, yielded>>
vars == <<pc, op, ctorvars, argvars, loopvars, streamvars, response, error,
          requests, asked, completion>>

NoSwarm == [mode |-> "", client |-> "None"]
NoResponse ==
  [present |-> FALSE, messages |-> <<>>, agent |-> NoAgent,
   context_variables |-> EmptyDict]
NoChunks == [iterable |-> FALSE, items |-> <<>>]

Init ==
  /\ pc = "new" /\ op = "" /\ mode = "" /\ self = NoSwarm
  /\ agent = NoAgent /\ stream = FALSE /\ max_turns = 0
  /\ execute_tools = TRUE /\ model_override = None /\ model_config = EmptyDict
  /\ messages0 = <<>> /\ ctx0 = EmptyDict
  /\ lists = [o \in {"arg", "copy"} |-> <<>>]
  /\ dicts = [o \in {"arg", "copy"} |-> EmptyDict]
  /\ history = "arg" /\ context_variables = "arg"
  /\ init_len = 0 /\ active_agent = NoAgent /\ broke = FALSE
  /\ message = NewMessage("") /\ chunks = NoChunks
  /\ tool_calls = <<>> /\ partial_response = NewPartial
  /\ yielded = <<>> /\ response = NoResponse /\ error = ""
  /\ requests = <<>> /\ executed = <<>> /\ asked = 0
  /\ completion = NoCompletion

(***************************************************************************)
(* Swarm.__init__ (lines 21-45).                                           *)
(***************************************************************************)
\* the value of self.client; "None" when no client was given or made
ClientOf(m, client_given) ==
  IF client_given \/ m \in {"ollama", "gemini", "openai"}
  THEN "client" ELSE "None"

\* the exception __init__ raises ("" when it returns)
InitRaises(m, client_given, key_given) ==
  IF m = "" THEN "ValueError"
  ELSE IF ~client_given /\ m = "gemini" /\ ~key_given THEN "ValueError"
  ELSE ""

Construct ==
  /\ pc = "new"
  /\ \E m \in Modes, client_given \in BOOLEAN, key_given \in BOOLEAN :
       /\ mode' = m
       /\ op' = "__init__"
       /\ error' = InitRaises(m, client_given, key_given)
       /\ pc' = IF error' = "" THEN "ready" ELSE "raised"
       /\ self' = IF error' = ""
                  THEN [mode |-> m, client |-> ClientOf(m, client_given)]
                  ELSE NoSwarm
  /\ UNCHANGED <<argvars, loopvars, streamvars, response, requests, asked,
                 completion>>

(***************************************************************************)
(* The entry of run (lines 306-320) and of run_and_stream (lines 210-214). *)
(***************************************************************************)
\* the agents, messages and context variables the runs are called with
InputAgents == {"A", "C", NoAgent}
TurnLimits == {0, 1, 2, MaxTurns}
UserMessage == Msg("user", Str("hello"), Absent, Absent, Absent, Absent)
CallerContexts == {EmptyDict, ("k" :> "v0") @@ ("j" :> "w0")}
CallerInputs ==
  {[messages |-> <<>>, context_variables |-> EmptyDict,
    model_override |-> None, model_config |-> EmptyDict],
   [messages |-> <<UserMessage>>,
    context_variables |-> ("k" :> "v0") @@ ("j" :> "w0"),
    model_override |-> Str("model-o"),
    model_config |-> ("parallel_tool_calls" :> Bool(FALSE))
                     @@ ("tool_choice" :> Str("required"))
                     @@ ("temperature" :> Str("0.2"))]}

\* history = messages, without the copy: the caller's list itself
AliasedMessages == "arg"

\* lines 211-212 and 317-318: copy.deepcopy(x), the object the local name is
\* bound to afterwards
deepcopy_context_variables == "copy"
deepcopy_messages == "copy"

\* lines 294-320: the call of run.  The blocking form takes its copies at
\* once.  With stream the call only makes the generator of run_and_stream
\* (lines 306-316): its body has not begun, the parameters are bound to the
\* caller's objects, and active_agent, history and init_len are not bound yet.
RunEnter ==
  /\ pc = "ready"
  /\ \E a \in InputAgents, st \in BOOLEAN, mt \in TurnLimits,
        et \in BOOLEAN, inp \in CallerInputs :
       /\ agent' = a /\ stream' = st /\ max_turns' = mt /\ execute_tools' = et
       /\ model_override' = inp.model_override
       /\ model_config' = inp.model_config
       /\ messages0' = inp.messages /\ ctx0' = inp.context_variables
       /\ IF st
          THEN /\ lists' = [lists EXCEPT !["arg"] = inp.messages]
               /\ dicts' = [dicts EXCEPT !["arg"] = inp.context_variables]
               /\ pc' = "created"
               /\ UNCHANGED <<active_agent, context_variables, history,
                              init_len>>
          ELSE /\ lists' = [o \in {"arg", "copy"} |-> inp.messages]
               /\ dicts' = [o \in {"arg", "copy"} |-> inp.context_variables]
               /\ active_agent' = a
               /\ context_variables' = deepcopy_context_variables
               /\ history' = deepcopy_messages
               /\ init_len' = Len(inp.messages)
               /\ pc' = "loop"
  /\ op' = "run"
  /\ UNCHANGED <<ctorvars, broke, tool_calls, partial_response, executed,
                 streamvars, response, error, requests, asked, completion>>

\* what a caller may do to its own objects while the generator waits for
\* its first next(): append a message and set a context variable
LaterMessage == Msg("user", Str("later"), Absent, Absent, Absent, Absent)
CallerEdits ==
  /\ pc = "created"
  /\ \A i \in DOMAIN messages0 : messages0[i] # LaterMessage
  /\ messages0' = Append(messages0, LaterMessage)
  /\ ctx0' = DictUpdate(ctx0, "k" :> "changed")
  /\ lists' = [lists EXCEPT !["arg"] = messages0']
  /\ dicts' = [dicts EXCEPT !["arg"] = ctx0']
  /\ UNCHANGED <<pc, op, ctorvars, agent, stream, max_turns, execute_tools,
                 model_override, model_config, init_len, history,
                 context_variables, active_agent, broke, tool_calls,
                 partial_response, executed, streamvars, response, error,
                 requests, asked, completion>>

\* lines 210-214: the first next() enters the body of run_and_stream, which
\* copies what the caller's objects hold by then
StreamStart ==
  /\ pc = "created"
  /\ active_agent' = agent
  /\ context_variables' = deepcopy_context_variables
  /\ history' = deepcopy_messages
  /\ lists' = [lists EXCEPT !["copy"] = lists["arg"]]
  /\ dicts' = [dicts EXCEPT !["copy"] = dicts["arg"]]
  /\ init_len' = Len(lists["arg"])
  /\ pc' = "loop"
  /\ UNCHANGED <<op, ctorvars, agent, stream, max_turns, execute_tools,
                 model_override, model_config, messages0, ctx0, broke,
                 tool_calls, partial_response, executed, streamvars, response,
                 error, requests, asked, completion>>

(***************************************************************************)
(* The turn loop.                                                          *)
(***************************************************************************)
\* the bound taken inclusively: one iteration too many
WithinTurnsInclusive(hist) == Len(hist) - init_len <= max_turns

\* lines 216 and 322: len(history) - init_len < max_turns
WithinTurns(hist) == Len(hist) - init_len < max_turns

\* line 322: the condition of the while loop of run
RunLoopCondition == WithinTurns(lists[history]) /\ active_agent # NoAgent

\* line 216: the condition of the while loop of run_and_stream
StreamLoopCondition == WithinTurns(lists[history])

\* the test without its second operand: execute_tools is not consulted
EndsTurnIgnoringFlag(calls) == calls = <<>>

\* lines 261 and 352: not message.tool_calls or not execute_tools
EndsTurn(calls) == calls = <<>> \/ ~execute_tools

\* the update the wrong way round: the values already held win
MergeContextKeepingOld(ctx, pr) == DictUpdate(pr.context_variables, ctx)

\* lines 282 and 361: context_variables.update(partial_response.context_variables)
MergeContext(ctx, pr) == DictUpdate(ctx, pr.context_variables)

\* the handoff of the batch dropped
NextAgentStale(active, pr) == active

\* lines 283-284 and 362-363: the active agent after the batch
NextAgent(active, pr) == IF pr.agent # NoAgent THEN pr.agent ELSE active

\* lines 281 and 360: history.extend(partial_response.messages)
ExtendHistory(hist, pr) == hist \o pr.messages

\* lines 234, 279, 326 and 358: the agent whose instructions, model and
\* functions the turn uses
RequestAgent == active_agent

\* lines 234 and 325: the value of the local name completion after the call
\* of get_chat_completion (the name keeps its value when the call raises)
Returned(a, override, m, env) ==
  IF Exchange(a, override, m, env).raised # "" THEN completion
  ELSE Exchange(a, override, m, env).completion

\* lines 261-284 and 352-363: the rest of the iteration once the assistant
\* message is in the history hist
AfterMessage(hist, calls) ==
  LET ctx == dicts[context_variables]
      pr  == handle_tool_calls(calls, AgentDef(RequestAgent).functions, ctx,
                               self.mode)
  IN  IF EndsTurn(calls)
      THEN [raised |-> "", broke |-> TRUE, hist |-> hist, ctx |-> ctx,
            agent |-> active_agent, executed |-> <<>>,
            partial |-> partial_response]
      ELSE IF pr.raised # ""
      THEN [raised |-> pr.raised, broke |-> FALSE, hist |-> hist, ctx |-> ctx,
            agent |-> active_agent, executed |-> pr.executed,
            partial |-> partial_response]
      ELSE [raised |-> "", broke |-> FALSE,
            hist |-> ExtendHistory(hist, pr), ctx |-> MergeContext(ctx, pr),
            agent |-> NextAgent(active_agent, pr), executed |-> pr.executed,
            partial |-> pr]

\* the state after the rest of the iteration; tool_calls is the batch last
\* handed to handle_tool_calls
Apply(hist, calls) ==
  /\ tool_calls' = IF EndsTurn(calls) THEN tool_calls ELSE calls
  /\ \E after \in {AfterMessage(hist, calls)} :
         /\ pc' = IF after.raised = "" THEN "loop" ELSE "raised"
         /\ error' = after.raised
         /\ lists' = [lists EXCEPT ![history] = after.hist]
         /\ dicts' = [dicts EXCEPT ![context_variables] = after.ctx]
         /\ active_agent' = after.agent
         /\ broke' = after.broke
         /\ partial_response' = after.partial
         /\ executed' = executed \o after.executed

\* the operation ends with exception e
Raise(e) ==
  /\ pc' = "raised" /\ error' = e

\* lines 322-363: one iteration of the loop of run
RunTurn ==
  /\ pc = "loop" /\ ~stream /\ ~broke
  /\ RunLoopCondition
  /\ \E env \in EnvsOf[self.mode, FALSE, MaxCalls - asked] :
       /\ completion' = Returned(RequestAgent, model_override, self.mode, env)
       /\ \E gc \in {get_chat_completion(RequestAgent, lists[history],
                                          dicts[context_variables],
                                          model_override, FALSE, model_config,
                                          self.mode, env)} :
            /\ requests' = Append(requests, gc.requests)
            /\ asked' = asked + Len(gc.completion.calls)
            /\ IF gc.raised # ""
               THEN Raise(gc.raised) /\ UNCHANGED loopvars
               ELSE IF ~gc.completion.present
               THEN Raise("AttributeError") /\ UNCHANGED loopvars
               ELSE Apply(lists[history] \o
                            AssistantEntries(self.mode, gc.completion,
                                             AgentDef(active_agent).name),
                          gc.completion.calls)
  /\ UNCHANGED <<op, ctorvars, argvars, streamvars, response>>

\* lines 365-369: the last message of the run, post-processed for Gemini
\* (ok is FALSE when it raises, and raised names the exception)
PostProcess(m, hist) ==
  LET tail == SubSeq(hist, init_len + 1, Len(hist))
      last == hist[Len(hist)]
      loaded == JsonLoadsContent(last.content)
  IN  IF ~InGemini(m) THEN [raised |-> "", hist |-> hist]
      ELSE IF tail = <<>> THEN [raised |-> "IndexError", hist |-> hist]
      ELSE IF ~loaded.ok THEN [raised |-> "JSONDecodeError", hist |-> hist]
      ELSE IF loaded.content.kind # "str"
      THEN [raised |-> "AttributeError", hist |-> hist]
      ELSE [raised |-> "",
            hist |-> [hist EXCEPT ![Len(hist)].content =
                                     Str(StrStrip(loaded.content.s))]]

\* lines 371-375 and 287-291: the Response
MakeResponse(hist) ==
  [present |-> TRUE,
   messages |-> SubSeq(hist, init_len + 1, Len(hist)),
   agent |-> active_agent,
   context_variables |-> dicts[context_variables]]

\* lines 365-375: the loop of run is left
RunReturn ==
  /\ pc = "loop" /\ ~stream
  /\ ~(~broke /\ RunLoopCondition)
  /\ LET post == PostProcess(self.mode, lists[history])
     IN  /\ lists' = [lists EXCEPT ![history] = post.hist]
         /\ error' = post.raised
         /\ pc' = IF post.raised = "" THEN "returned" ELSE "raised"
         /\ response' = IF post.raised = ""
                        THEN MakeResponse(post.hist) ELSE response
  /\ UNCHANGED <<op, ctorvars, argvars, dicts, active_agent, broke, tool_calls,
                 partial_response, executed, streamvars, requests, asked,
                 completion>>

(***************************************************************************)
(* run_and_stream (lines 216-292).  The generator is followed from yield   *)
(* to yield; `yielded' is what its consumer has received.                  *)
(***************************************************************************)
\* lines 243 and 252: the delimiters
StartDelim == [kind |-> "delim", delim |-> "start"]
\* a turn closed with the opening delimiter
EndDelimMistaken == [kind |-> "delim", delim |-> "start"]
EndDelim == [kind |-> "delim", delim |-> "end"]

\* lines 245-248: the delta as it is yielded
YieldedDelta(delta) ==
  [kind |-> "delta", delta |-> delta,
   sender |-> IF delta.role = Str("assistant")
              THEN Str(AgentDef(active_agent).name) ELSE Absent]

\* lines 286-292: the last item
YieldedResponse(r) == [kind |-> "response", response |-> r]

\* lines 216-243: the loop is entered, the completion requested, and the
\* start delimiter yielded
StreamBegin ==
  /\ pc = "loop" /\ stream /\ ~broke
  /\ StreamLoopCondition
  /\ IF agent = NoAgent
     THEN /\ Raise("AttributeError")
          /\ UNCHANGED <<requests, streamvars, asked, completion>>
     ELSE \E env \in EnvsOf[self.mode, TRUE, MaxCalls - asked] :
          /\ completion' = Returned(RequestAgent, model_override, self.mode, env)
          /\ \E gc \in {get_chat_completion(RequestAgent, lists[history],
                                             dicts[context_variables],
                                             model_override, TRUE,
                                             model_config, self.mode, env)} :
               /\ requests' = Append(requests, gc.requests)
               /\ asked' = asked + Len(gc.completion.calls)
               /\ IF gc.raised # ""
                  THEN Raise(gc.raised) /\ UNCHANGED streamvars
                  ELSE /\ pc' = "start" /\ error' = ""
                       /\ message' = NewMessage(AgentDef(agent).name)
                       /\ chunks' = IF gc.completion.present
                                    THEN [iterable |-> TRUE,
                                          items |-> Chunks(gc.completion)]
                                    ELSE NoChunks
                       /\ yielded' = Append(yielded, StartDelim)
  /\ UNCHANGED <<op, ctorvars, argvars, loopvars, response>>

\* lines 249-250: role and sender popped from the dict that was yielded,
\* which the consumer holds
PoppedDelta(item) == [item EXCEPT !.delta.role = Absent, !.sender = Absent]

\* lines 249-251, run when the generator is resumed at the yield of a
\* delta: the delta at the head of chunks.items, yielded and not yet merged,
\* loses role and sender and is merged into the message
YieldedAfterPops ==
  IF pc = "delta"
  THEN [yielded EXCEPT ![Len(yielded)] = PoppedDelta(@)]
  ELSE yielded
MessageAfterMerge ==
  IF pc = "delta" THEN merge_chunk(message, Head(chunks.items)) ELSE message
ChunksLeft == IF pc = "delta" THEN Tail(chunks.items) ELSE chunks.items

\* lines 244-248: the generator is resumed and yields the next delta, which
\* stays at the head of chunks.items until the next resumption merges it
StreamChunk ==
  /\ pc \in {"start", "delta"} /\ chunks.iterable /\ ChunksLeft # <<>>
  /\ yielded' = Append(YieldedAfterPops, YieldedDelta(Head(ChunksLeft)))
  /\ message' = MessageAfterMerge
  /\ chunks' = [chunks EXCEPT !.items = ChunksLeft]
  /\ pc' = "delta"
  /\ UNCHANGED <<op, ctorvars, argvars, loopvars, response, error, requests,
                 asked, completion>>

\* lines 244 and 252: the generator is resumed, the completion is exhausted
\* (or is not iterable) and the end delimiter is yielded
StreamEndDelim ==
  /\ pc \in {"start", "delta"} /\ ~(chunks.iterable /\ ChunksLeft # <<>>)
  /\ IF ~chunks.iterable
     THEN Raise("TypeError") /\ UNCHANGED <<message, chunks, yielded>>
     ELSE /\ yielded' = Append(YieldedAfterPops, EndDelim)
          /\ message' = MessageAfterMerge
          /\ chunks' = [chunks EXCEPT !.items = ChunksLeft]
          /\ pc' = "end" /\ error' = ""
  /\ UNCHANGED <<op, ctorvars, argvars, loopvars, response, requests, asked,
                 completion>>

\* lines 254-284: the generator is resumed at the yield of the end
\* delimiter: the message is finalized and put in the history, and its
\* tool calls, if any, are executed
StreamEndTurn ==
  /\ pc = "end"
  /\ \E calls \in {ToolCallValues(message.tool_calls)} :
       Apply(Append(lists[history], StreamedMessage(message)), calls)
  /\ UNCHANGED <<op, ctorvars, argvars, streamvars, response, requests, asked,
                 completion>>

\* lines 286-292: the loop is left, the response yielded
StreamFinish ==
  /\ pc = "loop" /\ stream
  /\ ~(~broke /\ StreamLoopCondition)
  /\ response' = MakeResponse(lists[history])
  /\ yielded' = Append(yielded, YieldedResponse(response'))
  /\ pc' = "returned"
  /\ UNCHANGED <<op, ctorvars, argvars, loopvars, message, chunks, error,
                 requests, asked, completion>>

(***************************************************************************)
(* handle_tool_calls called on its own (lines 127-198), with the functions *)
(* of an agent and a context mapping.                                      *)
(***************************************************************************)
CallHandleToolCalls ==
  /\ pc = "ready"
  /\ \E b \in Batches(MaxCalls), a \in {"A", "B"}, ctx \in CallerContexts :
       LET pr == handle_tool_calls(b, AgentDef(a).functions, ctx, self.mode)
       IN  /\ tool_calls' = b
           /\ active_agent' = a
           /\ dicts' = [o \in {"arg", "copy"} |-> ctx]
           /\ ctx0' = ctx
           /\ executed' = pr.executed
           /\ error' = pr.raised
           /\ partial_response' = IF pr.raised = "" THEN pr ELSE partial_response
           /\ pc' = IF pr.raised = "" THEN "returned" ELSE "raised"
  /\ op' = "handle_tool_calls"
  /\ UNCHANGED <<ctorvars, agent, stream, max_turns, execute_tools,
                 model_override, model_config, messages0, init_len, history,
                 context_variables, lists, broke, streamvars, response,
                 requests, asked, completion>>

Next ==
  \/ Construct
  \/ RunEnter
  \/ CallerEdits
  \/ StreamStart
  \/ RunTurn
  \/ RunReturn
  \/ StreamBegin
  \/ StreamChunk
  \/ StreamEndDelim
  \/ StreamEndTurn
  \/ StreamFinish
  \/ CallHandleToolCalls

Spec == Init /\ [][Next]_vars

FairSpec == Spec /\ WF_vars(Next)

(***************************************************************************)
(* Properties.                                                             *)
(***************************************************************************)
RecognizedModes == {"openai", "ollama", "gemini"}
\* a run whose body has begun (a generator not yet started has run nothing)
InRun == op = "run" /\ pc # "created"
Hist == lists[history]
Ctx == dicts[context_variables]

\* a run of the blocking form has ended, by a return or by an exception
BlockingEnded == InRun /\ ~stream /\ pc \in {"returned", "raised"}

\* C1: with max_turns = 0 the blocking run, in each of the modes openai,
\* ollama and gemini, asks for no completion and returns a Response with
\* no messages and the input agent.
C1_MaxTurnsZero ==
  (BlockingEnded /\ max_turns = 0 /\ self.mode \in RecognizedModes)
    => /\ requests = <<>>
       /\ pc = "returned"
       /\ response.present
       /\ response.messages = <<>>
       /\ response.agent = agent

\* the positions of `executed' whose tool handed off to an agent
Handoffs == {i \in DOMAIN executed :
               CallTool(executed[i].name, executed[i].context_variables).agent
                 # NoAgent}

\* the agent of the last tool, in call order, that handed off; the input
\* agent when none did
LastHandoff ==
  IF Handoffs = {} THEN agent
  ELSE LET i == CHOOSE x \in Handoffs : \A y \in Handoffs : y <= x
       IN  CallTool(executed[i].name, executed[i].context_variables).agent

\* the first request of the get_chat_completion call that a step makes
NewRequest == requests'[Len(requests')][1]

\* the active agent, and the agent of the Response, is the one the last
\* handing-off call returned
C2_HandoffState ==
  (InRun /\ pc # "raised")
    => /\ active_agent = LastHandoff
       /\ response.present => response.agent = LastHandoff

\* a request is built from the instructions, model and functions of the
\* agent the last handing-off call returned
C2_HandoffRequest ==
  (InRun /\ Len(requests') > Len(requests) /\ requests'[Len(requests')] # <<>>)
    => /\ NewRequest["messages"].items[1].content
            = Str(Instructions(LastHandoff, Ctx))
       /\ NewRequest["model"] = PyOr(model_override, AgentDef(LastHandoff).model)
       /\ "tools" \notin DOMAIN model_config
            => NewRequest["tools"] = (IF Tools(LastHandoff) = <<>> THEN None
                                      ELSE ListOf(Tools(LastHandoff)))

\* C2: after a batch the active agent is the one the last handing-off call
\* of the batch returned; the request of the next turn carries that
\* agent's instructions, model and functions; and the Response carries it,
\* in the blocking and in the streaming form.
C2_Handoff == [](C2_HandoffState) /\ [][C2_HandoffRequest]_vars

\* a run returned after a batch in which to_C and then to_B handed off,
\* and a second turn was requested for B
C2_Witness ==
  /\ InRun /\ pc = "returned" /\ response.agent = "B"
  /\ Len(executed) = 2 /\ executed[1].name = "to_C" /\ executed[2].name = "to_B"
  /\ Len(tool_calls) = 2 /\ Len(requests) = 2
  /\ requests[2][1]["model"] = Str("model-b")

\* the positions of `executed' whose tool result sets context key k
Writes(k) == {i \in DOMAIN executed :
                k \in DOMAIN CallTool(executed[i].name,
                                      executed[i].context_variables).context_variables}

\* the value the last of them set
LastWrite(k) ==
  LET i == CHOOSE x \in Writes(k) : \A y \in Writes(k) : y <= x
  IN  CallTool(executed[i].name, executed[i].context_variables).context_variables[k]

\* C3: the context variables are those of the call, with each key set by
\* a tool result holding the value of the last result that set it (in the
\* order of the calls in their batch, and batch after batch), and every
\* other key as it was.
C3_LastWriteWins ==
  /\ (InRun /\ pc # "raised")
       => /\ DOMAIN Ctx = DOMAIN ctx0 \cup {k \in CtxKeys : Writes(k) # {}}
          /\ \A k \in DOMAIN Ctx :
               Ctx[k] = IF Writes(k) # {} THEN LastWrite(k) ELSE ctx0[k]
  /\ (op = "handle_tool_calls" /\ pc = "returned")
       => /\ DOMAIN partial_response.context_variables
               = {k \in CtxKeys : Writes(k) # {}}
          /\ \A k \in DOMAIN partial_response.context_variables :
               partial_response.context_variables[k] = LastWrite(k)

\* a run with k = v0 and j = w0 returned after one batch in which to_C set
\* k and j and then set_k1 set k
C3_Witness ==
  /\ InRun /\ pc = "returned" /\ ctx0 = ("k" :> "v0") @@ ("j" :> "w0")
  /\ Len(tool_calls) = 2 /\ Len(executed) = 2
  /\ executed[1].name = "to_C" /\ executed[2].name = "set_k1"
  /\ response.context_variables = ("k" :> "v1") @@ ("j" :> "w2")

\* the batch handed to handle_tool_calls, and the functions it was given
Registered(i) == tool_calls[i].name \in FunctionMap(AgentDef(active_agent).functions)

\* every registered call of the batch has well-formed arguments and a
\* function that returns
HealthyBatch ==
  \A i \in DOMAIN tool_calls :
     Registered(i) => /\ JsonLoadsArgs(tool_calls[i].arguments).ok
                      /\ CallTool(tool_calls[i].name, ctx0).kind # "raise"

\* the names of the registered calls of the batch, in order
RECURSIVE RegisteredNames(_)
RegisteredNames(i) ==
  IF i > Len(tool_calls) THEN <<>>
  ELSE (IF Registered(i) THEN <<tool_calls[i].name>> ELSE <<>>)
         \o RegisteredNames(i + 1)

\* C4: in handle_tool_calls a call of an unregistered tool is not executed
\* and leaves exactly one message, whose content names the tool, at its
\* place among the messages; the calls after it are processed all the same.
C4_MissingTool ==
  (op = "handle_tool_calls" /\ HealthyBatch
     /\ \E i \in DOMAIN tool_calls : ~Registered(i))
    => /\ pc = "returned"
       /\ [i \in DOMAIN executed |-> executed[i].name] = RegisteredNames(1)
       /\ Len(partial_response.messages) = Len(tool_calls)
       /\ \A i \in DOMAIN tool_calls :
            ~Registered(i)
              => partial_response.messages[i].content
                   = Str("Error: Tool " \o tool_calls[i].name \o " not found.")

\* at least one reply has been received and put in the history, and no
\* reply so far carried a tool call
OnlyPlainReplies == InRun /\ Len(Hist) > init_len /\ asked = 0

\* C5: when the first reply of the model carries no tool calls the run, in
\* each of the modes openai, ollama and gemini, makes that one completion
\* request (one get_chat_completion call) and no other, dispatches no tool,
\* leaves the loop, and returns a Response that holds one message.
C5_SingleTurn ==
  (OnlyPlainReplies /\ self.mode \in RecognizedModes)
    => /\ Len(requests) = 1
       /\ executed = <<>>
       /\ pc \in {"loop", "returned"}
       /\ pc = "loop" => broke
       /\ pc = "returned" => /\ response.present
                             /\ Len(response.messages) = 1

\* C6: with execute_tools false a reply that asks for tool calls ends the
\* run once the assistant message is in the history: no tool function is
\* invoked, the Response holds that message only, and the active agent and
\* the context variables are those of the call.
C6_NoToolExecution ==
  (InRun /\ ~execute_tools /\ asked > 0)
    => /\ executed = <<>>
       /\ Len(requests) = 1
       /\ active_agent = agent
       /\ Ctx = ctx0
       /\ Len(Hist) - init_len <= 1
       /\ (pc = "loop" => broke)
       /\ response.present
            => /\ Len(response.messages) = 1
               /\ response.messages[1].role = "assistant"
               /\ response.agent = agent
               /\ response.context_variables = ctx0

C6_Witness ==
  /\ InRun /\ ~execute_tools /\ asked > 0 /\ max_turns > 1
  /\ pc = "returned" /\ response.present

\* the number of requests the client has received
RECURSIVE ClientCallsFrom(_)
ClientCallsFrom(i) ==
  IF i > Len(requests) THEN 0 ELSE Len(requests[i]) + ClientCallsFrom(i + 1)
ClientCalls == ClientCallsFrom(1)

\* no get_chat_completion call had to send its request again
NoRetry == \A i \in DOMAIN requests : Len(requests[i]) <= 1

Ended == pc \in {"returned", "raised"}

\* a step that asks for a completion starts within the bound
C7_RequestInBound ==
  (InRun /\ requests' # requests) => Len(Hist) - init_len < max_turns

\* the get_chat_completion calls, and the requests the client receives
\* when none has to be sent again, are at most max_turns
C7_AtMostMaxTurns ==
  InRun => /\ Len(requests) <= max_turns
           /\ NoRetry => ClientCalls <= max_turns

\* C7: a completion is requested only while len(history) - init_len <
\* max_turns, so a run makes at most max_turns get_chat_completion calls
\* (and, when no client call fails, the client receives at most max_turns
\* requests), and every run ends, each client call and each tool function
\* returning or raising.
C7_Termination ==
  /\ [][C7_RequestInBound]_vars
  /\ [](C7_AtMostMaxTurns)
  /\ (InRun ~> Ended)

\* a run with max_turns = MaxTurns whose model asked for a tool in each of
\* its turns left the loop because len(history) - init_len reached max_turns
C7_Witness ==
  /\ InRun /\ pc = "returned" /\ ~broke /\ max_turns = MaxTurns
  /\ Len(requests) >= 2 /\ Len(Hist) - init_len >= max_turns

\* C8: a Swarm constructed with an empty or unrecognized mode raises a
\* configuration error in __init__, so that no operation is ever called on
\* an instance whose mode is not openai, ollama or gemini.
C8_ModeValidated ==
  /\ (op = "__init__" /\ mode \notin RecognizedModes)
       => (pc = "raised" /\ error = "ValueError")
  /\ op \in {"run", "handle_tool_calls"} => self.mode \in RecognizedModes

\* the last delimiter or response before position i of `yielded' (0: none)
Before(i) == {j \in 1..(i - 1) : yielded[j].kind # "delta"}
LastMark(i) ==
  IF Before(i) = {} THEN "none"
  ELSE LET j == CHOOSE x \in Before(i) : \A y \in Before(i) : y <= x
       IN  IF yielded[j].kind = "delim" THEN yielded[j].delim ELSE "response"

Count(kind, delim) ==
  Cardinality({i \in DOMAIN yielded :
                 /\ yielded[i].kind = kind
                 /\ kind = "delim" => yielded[i].delim = delim})

\* C9: what run_and_stream yields is, turn after turn, a start delimiter,
\* deltas, and an end delimiter, and then the response as the last item:
\* a delta follows a start with no end in between, a start follows an end
\* (or nothing), an end follows a start, and the response follows an end
\* (or nothing) and is followed by nothing.  A run that ends in an
\* exception has yielded a prefix of this; one that ends normally has
\* yielded as many starts and ends as it had turns, and one response.
C9_StreamShape ==
  (InRun /\ stream)
    => /\ \A i \in DOMAIN yielded :
            CASE yielded[i].kind = "delta" -> LastMark(i) = "start"
              [] yielded[i].kind = "delim" /\ yielded[i].delim = "start" ->
                   LastMark(i) \in {"none", "end"}
              [] yielded[i].kind = "delim" /\ yielded[i].delim = "end" ->
                   LastMark(i) = "start"
              [] OTHER ->
                   /\ LastMark(i) \in {"none", "end"}
                   /\ i = Len(yielded)
                   /\ pc = "returned"
                   /\ yielded[i].response = response
       /\ pc = "returned"
            => /\ yielded # <<>>
               /\ yielded[Len(yielded)].kind = "response"
               /\ Count("response", "") = 1
               /\ Count("delim", "start") = Len(requests)
               /\ Count("delim", "end") = Len(requests)

\* a streamed run of two turns, the first of which delivered tool calls
C9_Witness ==
  /\ InRun /\ stream /\ pc = "returned"
  /\ Count("delim", "end") = 2 /\ Count("delta", "") >= 3
  /\ executed # <<>>

\* C10: run and run_and_stream never change the caller's messages list
\* and context_variables mapping: whatever the run does and however it
\* ends, the two objects hold what the caller put in them.
C10_CallerInputsKept ==
  InRun => /\ lists["arg"] = messages0
           /\ dicts["arg"] = ctx0

\* a run that ended in an exception after it had extended its history and
\* changed its context variables
C10_Witness ==
  /\ InRun /\ pc = "raised"
  /\ Len(Hist) > Len(messages0) + 2
  /\ Ctx # ctx0
  /\ lists["arg"] = messages0 /\ dicts["arg"] = ctx0

\* the history after the step, and the entries the step added to it
HistAfter == lists'[history']
Added == SubSeq(HistAfter, Len(Hist) + 1, Len(HistAfter))

\* C11: the assistant message a turn appends to the history carries as
\* sender the name of the agent that was active when the completion of the
\* turn was requested, in the blocking and in the streaming form (stated
\* for the modes openai and ollama, whose history entry is the message
\* itself).
C11_SenderTagged ==
  [][(InRun /\ pc \in {"loop", "end"} /\ InToolModes(self.mode)
        /\ Len(HistAfter) > Len(Hist))
       => /\ Added[1].role = "assistant"
          /\ Added[1].sender = Str(AgentDef(active_agent).name)]_vars

\* the keys of a request that concern tools
ToolKeys == {"tools", "tool_choice", "parallel_tool_calls"}

\* a tool-related key of request r is none or not sent
Stripped(r, key) == key \in DOMAIN r => r[key] = None

\* C12: in the modes openai and ollama a get_chat_completion call whose
\* first request fails sends one more request and no further one, and that
\* request carries no tool-related field: tools and tool_choice are none
\* and parallel_tool_calls is not sent.
C12_RetryStripped ==
  (InRun /\ InToolModes(self.mode))
    => \A i \in DOMAIN requests :
          /\ Len(requests[i]) <= 2
          /\ Len(requests[i]) = 2
               => \A key \in ToolKeys : Stripped(requests[i][2], key)

\* the step makes a get_chat_completion call, which sends n requests
CallSends(n) ==
  /\ Len(requests') = Len(requests) + 1
  /\ Len(requests'[Len(requests')]) = n

\* C13: in the modes openai and ollama a get_chat_completion call whose
\* first request and whose retry both fail raises the configuration error
\* (ValueError, as for a missing model), not the exception of the backend.
\* A call that sent two requests ends the run only when the second failed:
\* the answer to a retry carries no tool calls.
C13_SecondFailureFatal ==
  [][(InRun /\ InToolModes(self.mode) /\ CallSends(2) /\ pc' = "raised")
       => error' = "ValueError"]_vars


\* the call of this step is made with a model name (line 74)
ModelNamed == Truthy(AgentDef(RequestAgent).model) \/ Truthy(model_override)

\* the call of this step came back without a completion: the history got no
\* assistant message and no stream was opened
NothingReturned == HistAfter = Hist /\ pc' # "start"

\* C14: in the mode gemini a get_chat_completion call made with a model
\* name sends exactly one request, failed or not (no retry), and a call
\* whose request fails ends the run with the configuration error
\* (ValueError).
C14_GeminiNoRetry ==
  [][(InRun /\ self.mode = "gemini"
        /\ Len(requests') = Len(requests) + 1 /\ ModelNamed)
       => /\ CallSends(1)
          /\ NothingReturned => (pc' = "raised" /\ error' = "ValueError")]_vars

\* a Gemini run whose second turn's request failed
C14_Witness ==
  /\ InRun /\ self.mode = "gemini"
  /\ pc = "raised" /\ error = "ValueError"
  /\ Len(requests) = 2
  /\ Len(requests[1]) = 1 /\ Len(requests[2]) = 1
  /\ Len(Hist) - init_len = 2


\* C15: every key of model_config overrides the value the engine would
\* send for it: each request the client receives carries, for every key of
\* model_config, the value model_config gives it.
C15_ConfigWins ==
  InRun => \A i \in DOMAIN requests : \A j \in DOMAIN requests[i] :
              \A key \in DOMAIN model_config :
                 /\ key \in DOMAIN requests[i][j]
                 /\ requests[i][j][key] = model_config[key]


\* the loop of the blocking run is over: the message carried no tool calls
\* or execute_tools is false (broke), or the turn limit is reached or no
\* agent is active (the loop condition fails)
LoopExited == InRun /\ ~stream /\ pc = "loop" /\ (broke \/ ~RunLoopCondition)

\* C16: whenever the loop of the blocking run exits normally, in each of
\* the modes openai, ollama and gemini and whatever the last message of the
\* history holds, run returns a Response and raises nothing.
C16_NormalExitReturns ==
  [][(LoopExited /\ self.mode \in RecognizedModes /\ pc' # pc)
       => /\ pc' = "returned"
          /\ error' = ""
          /\ response'.present]_vars


\* C17: when a streamed turn is finalized, the message put in the history
\* lists the tool calls of the reply by ascending index (the order of
\* completion.calls), in whatever order their fragments arrived, and its
\* tool_calls is None when the reply carried no tool call.
C17_StreamedCallsByIndex ==
  [][(InRun /\ stream /\ pc = "end" /\ Len(HistAfter) > Len(Hist))
       => Added[1].tool_calls = IF completion.calls = <<>>
                                THEN NoCalls
                                ELSE CallList(completion.calls)]_vars


\* the batch a step of the loop hands to handle_tool_calls (lines 278 and
\* 357), when the step received a message with tool calls to execute
StepCalls == IF stream THEN ToolCallValues(message.tool_calls)
             ELSE completion'.calls
Dispatches ==
  /\ InRun /\ pc \in {"loop", "end"}
  /\ Len(HistAfter) > Len(Hist)
  /\ ~EndsTurn(StepCalls)

\* a call of the batch names a registered tool
RegisteredCall(tc) == tc.name \in FunctionMap(AgentDef(active_agent).functions)
\* ... and its arguments do not parse, or its function raises
BadArguments(tc) == RegisteredCall(tc) /\ ~JsonLoadsArgs(tc.arguments).ok
Fails(tc) ==
  RegisteredCall(tc) /\ (BadArguments(tc) \/ CallTool(tc.name, Ctx).kind = "raise")
Failing(calls) == {i \in DOMAIN calls : Fails(calls[i])}
FirstFailing(calls) ==
  CHOOSE i \in Failing(calls) : \A j \in Failing(calls) : i <= j

\* the names of the registered calls among the first n of the batch
RECURSIVE RegisteredUpTo(_, _)
RegisteredUpTo(calls, n) ==
  IF n = 0 THEN <<>>
  ELSE RegisteredUpTo(calls, n - 1)
         \o (IF RegisteredCall(calls[n]) THEN <<calls[n].name>> ELSE <<>>)

\* the functions a step called, in order
NewlyExecuted ==
  [i \in 1..(Len(executed') - Len(executed)) |-> executed'[Len(executed) + i].name]

\* C18: when a call of the batch names a registered tool and its argument
\* string is malformed JSON, or its function raises, the exception ends the
\* run: the calls after it are not executed, the history gets none of the
\* batch's result messages, the context variables and the active agent stay
\* as they were before the batch, and no Response is returned or yielded.
C18_BatchAborts ==
  [][(Dispatches /\ Failing(StepCalls) # {})
       => LET first == FirstFailing(StepCalls)
          IN  /\ pc' = "raised"
              /\ error' = IF BadArguments(StepCalls[first])
                          THEN "JSONDecodeError" ELSE "ToolError"
              /\ NewlyExecuted
                   = RegisteredUpTo(StepCalls,
                                    IF BadArguments(StepCalls[first])
                                    THEN first - 1 ELSE first)
              /\ Len(Added) = 1
              /\ dicts' = dicts
              /\ active_agent' = active_agent
              /\ ~response'.present
              /\ \A i \in DOMAIN yielded' : yielded'[i].kind # "response"]_vars

\* a run ended by the exception of boom, the second call of a batch whose
\* first call, to_C, had returned an agent and context updates
C18_Witness ==
  /\ InRun /\ pc = "raised" /\ error = "ToolError"
  /\ Len(tool_calls) = 2
  /\ tool_calls[1].name = "to_C" /\ tool_calls[2].name = "boom"
  /\ Len(executed) = 2
  /\ active_agent = "A" /\ Ctx = ctx0


\* the positions of `executed' a step added
NewCalls == (Len(executed) + 1)..Len(executed')

\* C19: every tool function of a batch that declares context_variables is
\* handed the context variables of the run as they were when the batch
\* started, whatever the earlier calls of the batch returned; the updates
\* show from the next turn on: the instructions of the next request are
\* computed from the context variables with the updates merged in.
C19_BatchStartContext ==
  /\ [][Dispatches
          => \A i \in NewCalls :
                executed'[i].injected => executed'[i].context_variables = Ctx]_vars
  /\ [][(InRun /\ Len(requests') > Len(requests)
           /\ requests'[Len(requests')] # <<>>)
          => NewRequest["messages"].items[1].content
               = Str(Instructions(active_agent, Ctx))]_vars

\* a run with k = v0 whose first batch was set_k1, which sets k to v1, and
\* then look, which was handed k = v0; the run returned with k = v1
C19_Witness ==
  /\ InRun /\ pc = "returned" /\ ctx0 = ("k" :> "v0") @@ ("j" :> "w0")
  /\ Len(executed) = 2
  /\ executed[1].name = "set_k1" /\ executed[2].name = "look"
  /\ Len(tool_calls) = 2
  /\ executed[2].context_variables["k"] = "v0"
  /\ response.context_variables["k"] = "v1"


\* the roles of a list of messages
Roles(ms) == [i \in DOMAIN ms |-> ms[i].role]

\* what one iteration of the loop of run (lines 336-363) makes of the
\* reply held in `completion', from the state the streamed turn started in
BlockingTurn ==
  AfterMessage(Hist \o AssistantEntries(self.mode, completion,
                                        AgentDef(active_agent).name),
               completion.calls)

\* a streamed turn is finalized and its batch, if any, dispatched
StreamedTurnEnds ==
  /\ InRun /\ stream /\ agent # NoAgent /\ InToolModes(self.mode)
  /\ pc = "end" /\ pc' # "end"

\* C20: run and run_and_stream implement the same loop: in the modes
\* openai and ollama, with a non-null agent, a streamed turn leaves the
\* run as the blocking turn leaves it on the same reply from the same
\* state (the same tools called in the same order, the same active agent
\* and context variables, the same number and roles of messages, the same
\* exception if any, the same decision to end), and both forms go on to a
\* next turn under the same condition.
C20_SameLoop ==
  /\ [][StreamedTurnEnds
          => /\ executed' = executed \o BlockingTurn.executed
             /\ active_agent' = BlockingTurn.agent
             /\ dicts'[context_variables'] = BlockingTurn.ctx
             /\ Roles(HistAfter) = Roles(BlockingTurn.hist)
             /\ error' = BlockingTurn.raised
             /\ broke' = BlockingTurn.broke]_vars
  /\ [](InRun /\ agent # NoAgent /\ pc = "loop"
          => (RunLoopCondition <=> StreamLoopCondition))

=============================================================================
